---- MODULE Spec2Model ----
(***************************************************************************)
(* The feature pipeline of q_networks_digital_asset_forecasting:           *)
(*   src/data/data_controller.py        main                               *)
(*   src/features/feature_engineering.py                                   *)
(*        add_all_technical_indicators, add_blockchain_data,               *)
(*        extract_lstm_features                                            *)
(* A table (pandas DataFrame) is a record                                  *)
(*   [index |-> sequence of keys, cols |-> sequence of column names,       *)
(*    rows  |-> sequence of functions column name -> value].               *)
(* A timestamp is <<day, tick>>, a calendar date is <<day>>.  Defined      *)
(* values are naturals, NaN is the undefined value.                        *)
(***************************************************************************)
EXTENDS Integers, Sequences, FiniteSets, TLC

\* ------------------------------------------------------------- bounds
MaxRows == 5
MaxSeqLen == 3
NumWeights == 2
IndicatorWindow == 2

\* The closing prices a fetched row may carry.
CloseVals == {1, 2}

\* pandas' missing value.
NaN == -1

\* ------------------------------------------------------------ helpers
Range(s) == {s[i] : i \in DOMAIN s}

Min(a, b) == IF a < b THEN a ELSE b

Max(a, b) == IF a > b THEN a ELSE b

RECURSIVE SumSeq(_)
SumSeq(s) == IF s = <<>> THEN 0 ELSE s[1] + SumSeq(Tail(s))

\* Python's seq[start:stop] for a sequence held 1-based: negative bounds
\* count from the end, both are clamped to [0, len].
PySlice(s, start, stop) ==
    LET n  == Len(s)
        lo == IF start < 0 THEN Max(n + start, 0) ELSE Min(start, n)
        hi == IF stop < 0 THEN Max(n + stop, 0) ELSE Min(stop, n)
    IN  IF hi <= lo THEN <<>> ELSE SubSeq(s, lo + 1, hi)

EmptyTable == [index |-> <<>>, cols |-> <<>>, rows |-> <<>>]

NRows(t) == Len(t.index)

\* df[c]: the column as a sequence.
Column(t, c) == [i \in DOMAIN t.rows |-> t.rows[i][c]]

\* df[c] = vals: the column is overwritten, or appended when it is new.
SetCol(t, c, vals) ==
    [index |-> t.index,
     cols  |-> IF c \in Range(t.cols) THEN t.cols ELSE Append(t.cols, c),
     rows  |-> [i \in DOMAIN t.rows |->
                  [k \in Range(t.cols) \cup {c} |->
                      IF k = c THEN vals[i] ELSE t.rows[i][k]]]]

TakeRows(t, pos) ==
    [index |-> [k \in DOMAIN pos |-> t.index[pos[k]]],
     cols  |-> t.cols,
     rows  |-> [k \in DOMAIN pos |-> t.rows[pos[k]]]]

\* ------------------------------------------------ collaborators (data)
\* src.api.yfinance.fetch_bitcoin_data: one row per day, ascending
\* timestamps at midnight, columns Open, High, Low, Close, Volume.
fetch_bitcoin_data(closes) ==
    [index |-> [i \in DOMAIN closes |-> <<i - 1, 0>>],
     cols  |-> <<"Open", "High", "Low", "Close", "Volume">>,
     rows  |-> [i \in DOMAIN closes |->
                  [k \in {"Open", "High", "Low", "Close", "Volume"} |->
                      CASE k = "Open"   -> closes[i]
                        [] k = "High"   -> closes[i] + 1
                        [] k = "Low"    -> closes[i] - 1
                        [] k = "Close"  -> closes[i]
                        [] k = "Volume" -> 1]]]

\* src.data.data_cleaning.clean_data: drops every row that holds an
\* undefined value, keeps the others in their order.
HasNaN(row) == \E k \in DOMAIN row : row[k] = NaN

\* The positions i.. of the rows that hold no undefined value.
RECURSIVE DefinedPositions(_, _)
DefinedPositions(rows, i) ==
    IF i > Len(rows) THEN <<>>
    ELSE (IF HasNaN(rows[i]) THEN <<>> ELSE <<i>>) \o DefinedPositions(rows, i + 1)

clean_data(t) == TakeRows(t, DefinedPositions(t.rows, 1))

\* ----------------------------------------------------- the label (main)
\* Series.shift(-1): every value moves one row up, the last is missing.
ShiftUp(s) == [i \in DOMAIN s |-> IF i < Len(s) THEN s[i + 1] ELSE NaN]

\* a > b on floats: a comparison with NaN is False.
Gt(a, b) == a # NaN /\ b # NaN /\ a > b

\* .astype(int) of a boolean.
AsInt(b) == IF b THEN 1 ELSE 0

\* (df["Close"].shift(-1) > df["Close"]).astype(int)
Target(close) == [i \in DOMAIN close |-> AsInt(Gt(ShiftUp(close)[i], close[i]))]

AttachTargetCol(t) == SetCol(t, "target", Target(Column(t, "Close")))

\* ------------------------------------- add_all_technical_indicators
\* The columns assigned at feature_engineering.py 106-117, in order.
IndicatorCols ==
    <<"upper_bb", "middle_bb", "lower_bb", "slowk", "slowd", "macd",
      "macdsignal", "macdhist", "rsi", "sma", "ema", "atr", "macd_hist",
      "obv", "cci">>

\* src.features.ta: the lookback window of an indicator; the cumulative
\* ones (ema, obv) have a value from the first row on.
Window(c) == IF c \in {"ema", "obv"} THEN 1 ELSE IndicatorWindow

\* src.features.ta calculate_*: a column aligned to the input's index whose
\* first Window-1 entries are undefined; the later ones are a number
\* derived from the prices (here the close of the row).
Indicator(c, data) ==
    [i \in DOMAIN data.rows |->
        IF i < Window(c) THEN NaN ELSE data.rows[i]["Close"]]

RECURSIVE AssignIndicators(_, _)
AssignIndicators(data, k) ==
    IF k > Len(IndicatorCols) THEN data
    ELSE AssignIndicators(
             SetCol(data, IndicatorCols[k], Indicator(IndicatorCols[k], data)),
             k + 1)

\* Faulty variant: the first assignment lands on the Close column.
AssignIndicatorsOverClose(data) ==
    AssignIndicators(SetCol(data, "Close", Indicator("upper_bb", data)), 1)

\* Lines 106-117: the caller's table after the column assignments.
IndicatorsInPlace(data) == AssignIndicators(data, 1)

\* Lines 119-122: the table the function returns.
add_all_technical_indicators(data) == clean_data(IndicatorsInPlace(data))

\* ---------------------------------------------- add_blockchain_data
AuxNames ==
    <<"HashRate", "AvgBlockSize", "NetworkDifficulty", "MinersRevenue",
      "MempoolSize">>

\* The order of the merges at lines 72-89.
BlockchainOrder == AuxNames

RECURSIVE SortedSeq(_)
SortedSeq(S) ==
    IF S = {} THEN <<>>
    ELSE LET m == CHOOSE x \in S : \A y \in S : x <= y
         IN  <<m>> \o SortedSeq(S \ {m})

\* The value an auxiliary series reports for a day.
AuxValue(name, d) ==
    LET k == CHOOSE i \in DOMAIN AuxNames : AuxNames[i] = name
    IN  10 * k + d

\* src.features.blockchain get_*: one value column keyed by date.
DailySeries(name, days) ==
    LET ds == SortedSeq(days)
    IN  [index |-> [i \in DOMAIN ds |-> <<ds[i]>>],
         cols  |-> <<name>>,
         rows  |-> [i \in DOMAIN ds |-> [k \in {name} |-> AuxValue(name, ds[i])]]]

\* get_mempool_size: sub-daily samples keyed by timestamp <<day, tick>>;
\* samples is a set of timestamps.
MempoolValue(ts) == 4 * ts[1] + 2 * ts[2]

MempoolSeries(samples) ==
    LET codes == SortedSeq({2 * ts[1] + ts[2] : ts \in samples})
        stamp(c) == <<c \div 2, c % 2>>
    IN  [index |-> [i \in DOMAIN codes |-> stamp(codes[i])],
         cols  |-> <<"MempoolSize">>,
         rows  |-> [i \in DOMAIN codes |->
                      [k \in {"MempoolSize"} |-> MempoolValue(stamp(codes[i]))]]]

\* DatetimeIndex.date: the calendar date of a timestamp.
DateOf(ts) == <<ts[1]>>

\* Line 69: data.index = data.index.date, on the caller's table.
IndexDate(data) ==
    [data EXCEPT !.index = [i \in DOMAIN data.index |-> DateOf(data.index[i])]]

\* Faulty variant: the conversion also loses the first row.
IndexDateDropFirst(data) ==
    LET t == TakeRows(data, [k \in 1..(NRows(data) - 1) |-> k + 1])
    IN  [t EXCEPT !.index = [i \in DOMAIN t.index |-> DateOf(t.index[i])]]

\* An index join compares a date with a timestamp as that day's midnight.
JoinKey(k) == IF Len(k) = 1 THEN <<k[1], 0>> ELSE k

Matches(right, key) ==
    {j \in DOMAIN right.index : JoinKey(right.index[j]) = JoinKey(key)}

\* Faulty variant: a left row without a partner takes the value of the row before.
MergeFfill(left, right) ==
    LET rc == Range(right.cols)
        val(i, k) ==
            LET withKey == {h \in 1..i : Matches(right, left.index[h]) # {}}
            IN  IF withKey = {} THEN NaN
                ELSE LET h == CHOOSE x \in withKey : \A y \in withKey : y <= x
                         j == CHOOSE x \in Matches(right, left.index[h]) : TRUE
                     IN  right.rows[j][k]
    IN  [index |-> left.index,
         cols  |-> left.cols \o right.cols,
         rows  |-> [i \in DOMAIN left.rows |->
                      [k \in Range(left.cols) \cup rc |->
                          IF k \in rc THEN val(i, k) ELSE left.rows[i][k]]]]

\* Faulty variant: how="right": the result takes the right table's keys.
MergeRight(left, right) ==
    LET lc == Range(left.cols)
        lm(j) == {i \in DOMAIN left.index :
                     JoinKey(left.index[i]) = JoinKey(right.index[j])}
    IN  [index |-> right.index,
         cols  |-> left.cols \o right.cols,
         rows  |-> [j \in DOMAIN right.rows |->
                      [k \in lc \cup Range(right.cols) |->
                          IF k \in lc
                          THEN IF lm(j) = {} THEN NaN
                               ELSE left.rows[CHOOSE i \in lm(j) : TRUE][k]
                          ELSE right.rows[j][k]]]]

\* pd.merge(left, right, how="left", left_index=True, right_index=True),
\* the right keys being unique: every left row is kept, in order, with
\* the right columns of its partner, or undefined when it has none.
Merge(left, right) ==
    LET rc   == Range(right.cols)
        keys == [j \in DOMAIN right.index |-> JoinKey(right.index[j])]
        partner(i) ==
            LET ms == {j \in DOMAIN keys : keys[j] = JoinKey(left.index[i])}
            IN  IF ms = {} THEN 0 ELSE CHOOSE j \in ms : TRUE
    IN  [index |-> left.index,
         cols  |-> left.cols \o right.cols,
         rows  |-> [i \in DOMAIN left.rows |->
                      LET j == partner(i)
                      IN  left.rows[i] @@
                          [k \in rc |-> IF j = 0 THEN NaN ELSE right.rows[j][k]]]]

\* The samples of day d as a sequence, in index order.
RECURSIVE DaySamples(_, _, _)
DaySamples(series, d, i) ==
    IF i > NRows(series) THEN <<>>
    ELSE (IF series.index[i][1] = d
          THEN <<series.rows[i][series.cols[1]]>> ELSE <<>>)
         \o DaySamples(series, d, i + 1)

\* The mean of a non-empty sequence (the sampled values make it exact).
Mean(vals) == SumSeq(vals) \div Len(vals)

\* Line 84: series.resample("D").mean(): one row per day from the first
\* sampled day to the last, at midnight; a day without a sample is NaN.
Resample(series) ==
    IF NRows(series) = 0 THEN series
    ELSE LET days == {series.index[i][1] : i \in DOMAIN series.index}
             lo   == CHOOSE x \in days : \A y \in days : x <= y
             hi   == CHOOSE x \in days : \A y \in days : y <= x
             val(d) == IF DaySamples(series, d, 1) = <<>> THEN NaN
                       ELSE Mean(DaySamples(series, d, 1))
         IN  [index |-> [i \in 1..(hi - lo + 1) |-> <<lo + i - 1, 0>>],
              cols  |-> series.cols,
              rows  |-> [i \in 1..(hi - lo + 1) |->
                           [k \in Range(series.cols) |-> val(lo + i - 1)]]]

\* What is merged for a series: the mempool series is resampled first.
Prepared(series, name) ==
    IF name = "MempoolSize" THEN Resample(series[name]) ELSE series[name]

\* The merges of lines 72-89 taken in the given order of series names.
RECURSIVE MergeAll(_, _, _)
MergeAll(data, series, order) ==
    IF order = <<>> THEN data
    ELSE MergeAll(Merge(data, Prepared(series, Head(order))), series, Tail(order))

\* Lines 69-89: the merged table before cleaning.
BlockchainMerged(data, series) == MergeAll(IndexDate(data), series, BlockchainOrder)

\* Faulty variant: the function returns the merged table without cleaning it.
BlockchainUncleaned(data, series) == BlockchainMerged(data, series)

\* Lines 69-94: the table the function returns.
add_blockchain_data(data, series) == clean_data(BlockchainMerged(data, series))

\* The series the five fetches may return.
Coverages == {0..(MaxRows - 1), 1..(MaxRows - 2)}

MempoolSamplings ==
    { {<<d, t>> : d \in 0..(MaxRows - 1), t \in 0..1},
      {<<d, 1>> : d \in 1..(MaxRows - 1)},
      {<<0, 0>>, <<MaxRows - 1, 1>>} }

NoSeries == [n \in {} |-> EmptyTable]

\* -------------------------------------------- extract_lstm_features
\* src.features.extraction.lstm.create_sequences: N-L windows, window i
\* holding rows i .. i+L-1 (1-based), in chronological order.
create_sequences(data, L) ==
    [i \in 1..(NRows(data) - L) |-> SubSeq(data.rows, i, i + L - 1)]

\* create_sequences rejects a window length >= the row count.
RejectsLength(data, L) == L >= NRows(data)

\* Lines 144-147: model.predict(X)[i].mean(): the scalar the trained
\* network (weights w) yields for one window.
Summary(window, w) ==
    w * SumSeq([i \in DOMAIN window |-> window[i]["Close"]])

\* Faulty variant: the slice starts one row later, df.index[sequence_length:].
ReindexSliceLate(index, L) == PySlice(index, L, Len(index))

\* Line 153: df.index[sequence_length - 1 : -1]
ReindexSlice(index, L) == PySlice(index, L - 1, -1)

FeatureAt(data, idx, feats, i) ==
    LET js == {j \in DOMAIN idx : idx[j] = data.index[i]}
    IN  IF js = {} THEN NaN ELSE feats[CHOOSE j \in js : TRUE]

\* Faulty variant: join="inner": only the rows that have a feature are kept.
RECURSIVE FeaturePositions(_, _, _)
FeaturePositions(data, idx, i) ==
    IF i > NRows(data) THEN <<>>
    ELSE (IF \E j \in DOMAIN idx : idx[j] = data.index[i] THEN <<i>> ELSE <<>>)
         \o FeaturePositions(data, idx, i + 1)

ConcatInner(data, idx, feats) ==
    LET t == TakeRows(data, FeaturePositions(data, idx, 1))
    IN  SetCol(t, "lstm_feature", [i \in DOMAIN t.rows |-> FeatureAt(t, idx, feats, i)])

\* Lines 150-156: pd.concat([df, features_df], axis=1), features_df being
\* the column lstm_feature indexed by idx (keys of df, unique): every row
\* of df with the feature of its key, or undefined when idx lacks it.
ConcatFeature(data, idx, feats) ==
    SetCol(data, "lstm_feature",
           [i \in DOMAIN data.rows |-> FeatureAt(data, idx, feats, i)])

\* Faulty variant: the model is built before the sequences are created.
ExtractOrderBuildFirst ==
    <<"build_lstm_model", "create_sequences", "train_model", "predict", "concat">>

\* The statements of lines 134-156 in their order.
ExtractOrder ==
    <<"create_sequences", "build_lstm_model", "train_model", "predict", "concat">>

NoModel == [shape |-> <<>>, w |-> 0]

\* ------------------------------------------------- data_controller
\* The names feature_engineering.py defines (lines 44, 97, 125).
FeatureEngineeringDefs ==
    {"add_blockchain_data", "add_all_technical_indicators", "extract_lstm_features"}

\* The names data_controller.py imports from it (lines 15-19).
ControllerImports ==
    {"add_all_technical_indicators", "add_blockchain_data", "extract_features"}

VARIABLES
    pc,         \* position in the pipeline
    df,         \* the caller's table
    dfObj,      \* identity of the object df is bound to
    argBefore,  \* the table passed to the last builder call, as passed
    arg,        \* the same object when the call returned
    argObj,     \* its identity
    aux,        \* add_blockchain_data's fetched series, at its return
    preClean,   \* add_blockchain_data's table before line 92, at its return
    seqLen,     \* extract_lstm_features: sequence_length
    estep,      \* extract_lstm_features: the statement to run next
    X,          \* extract_lstm_features: the windows
    model,      \* extract_lstm_features: the network and its weights
    feats,      \* extract_lstm_features: one scalar per window
    events,     \* extract_lstm_features: the collaborator calls made
    result      \* extract_lstm_features: the table returned

builder == <<dfObj, argBefore, arg, argObj, aux, preClean>>

extractor == <<seqLen, estep, X, model, feats, events, result>>

vars == <<pc, df, builder, extractor>>

Init ==
    /\ pc = "start"
    /\ df = EmptyTable
    /\ dfObj = 0
    /\ argBefore = EmptyTable
    /\ arg = EmptyTable
    /\ argObj = 0
    /\ aux = NoSeries
    /\ preClean = EmptyTable
    /\ seqLen = 0
    /\ estep = 0
    /\ X = <<>>
    /\ model = NoModel
    /\ feats = <<>>
    /\ events = <<>>
    /\ result = EmptyTable

\* data_controller.py 13-19: importing the module binds the imported names;
\* a name the source module does not define raises ImportError, and main is
\* never bound.
ImportDataController ==
    /\ pc = "start"
    /\ pc' = IF ControllerImports \subseteq FeatureEngineeringDefs
             THEN "main" ELSE "ImportError"
    /\ UNCHANGED <<df, builder, extractor>>

\* data_controller.py 34: df = fetch_bitcoin_data(start_date, end_date)
Fetch ==
    /\ pc = "start"
    /\ \E n \in 1..MaxRows : \E closes \in [1..n -> CloseVals] :
          df' = fetch_bitcoin_data(closes)
    /\ dfObj' = 1
    /\ pc' = "fetched"
    /\ UNCHANGED <<argBefore, arg, argObj, aux, preClean, extractor>>

\* data_controller.py 37: the target column is assigned on df itself.
AttachTarget ==
    /\ pc = "fetched"
    /\ df' = AttachTargetCol(df)
    /\ pc' = "labelled"
    /\ UNCHANGED <<builder, extractor>>

\* data_controller.py 40: df = add_all_technical_indicators(df).  The
\* assignments act on the caller's object; clean_data returns a new one.
AddAllTechnicalIndicators ==
    /\ pc = "labelled"
    /\ argBefore' = df
    /\ arg' = IndicatorsInPlace(df)
    /\ argObj' = dfObj
    /\ df' = add_all_technical_indicators(df)
    /\ dfObj' = dfObj + 1
    /\ pc' = "indicators"
    /\ UNCHANGED <<aux, preClean, extractor>>

\* data_controller.py 41: df = add_blockchain_data(df, ...).  Line 69 acts
\* on the caller's object; every pd.merge returns a new one.
AddBlockchainData ==
    /\ pc = "indicators"
    /\ \E h, b, d, m \in Coverages : \E s \in MempoolSamplings :
          LET series ==
                [n \in Range(AuxNames) |->
                    CASE n = "HashRate"          -> DailySeries(n, h)
                      [] n = "AvgBlockSize"      -> DailySeries(n, b)
                      [] n = "NetworkDifficulty" -> DailySeries(n, d)
                      [] n = "MinersRevenue"     -> DailySeries(n, m)
                      [] n = "MempoolSize"       -> MempoolSeries(s)]
          IN  /\ aux' = series
              /\ preClean' = BlockchainMerged(df, series)
              /\ df' = add_blockchain_data(df, series)
    /\ argBefore' = df
    /\ arg' = IndexDate(df)
    /\ argObj' = dfObj
    /\ dfObj' = dfObj + 1
    /\ pc' = "merged"
    /\ UNCHANGED extractor

\* data_controller.py 44: df = clean_data(df)
CleanData ==
    /\ pc = "merged"
    /\ df' = clean_data(df)
    /\ dfObj' = dfObj + 1
    /\ pc' = "cleaned"
    /\ argBefore' = EmptyTable
    /\ arg' = EmptyTable
    /\ argObj' = 0
    /\ aux' = NoSeries
    /\ preClean' = EmptyTable
    /\ UNCHANGED extractor

\* extract_lstm_features(df, sequence_length) is entered.
CallExtract ==
    /\ pc = "cleaned"
    /\ \E L \in 1..MaxSeqLen : seqLen' = L
    /\ estep' = 1
    /\ pc' = "extracting"
    /\ UNCHANGED <<df, builder, X, model, feats, events, result>>

AtStatement(name) ==
    /\ pc = "extracting"
    /\ estep \in DOMAIN ExtractOrder
    /\ ExtractOrder[estep] = name

\* Line 134: X = create_sequences(df, sequence_length)
CreateSequences ==
    /\ AtStatement("create_sequences")
    /\ events' = Append(events, "create_sequences")
    /\ IF RejectsLength(df, seqLen)
       THEN /\ pc' = "ConfigurationError"
            /\ UNCHANGED <<X, estep>>
       ELSE /\ X' = create_sequences(df, seqLen)
            /\ estep' = estep + 1
            /\ pc' = pc
    /\ UNCHANGED <<df, builder, seqLen, model, feats, result>>

\* Line 137: model = build_lstm_model(input_shape=(sequence_length, df.shape[1]))
BuildLstmModel ==
    /\ AtStatement("build_lstm_model")
    /\ events' = Append(events, "build_lstm_model")
    /\ model' = [shape |-> <<seqLen, Len(df.cols)>>, w |-> 0]
    /\ estep' = estep + 1
    /\ UNCHANGED <<pc, df, builder, seqLen, X, feats, result>>

\* Line 140: model = train_model(model, X, epochs=10): the weights the
\* training ends with are not determined by the inputs.
TrainModel ==
    /\ AtStatement("train_model")
    /\ events' = Append(events, "train_model")
    /\ \E w \in 1..NumWeights : model' = [model EXCEPT !.w = w]
    /\ estep' = estep + 1
    /\ UNCHANGED <<pc, df, builder, seqLen, X, feats, result>>

\* Lines 144-147: features = model.predict(X); features.mean(axis=(1, 2))
Predict ==
    /\ AtStatement("predict")
    /\ events' = Append(events, "predict")
    /\ feats' = [i \in DOMAIN X |-> Summary(X[i], model.w)]
    /\ estep' = estep + 1
    /\ UNCHANGED <<pc, df, builder, seqLen, X, model, result>>

\* Lines 150-158: the features get the index slice (an index of another
\* length than the column raises ValueError), are concatenated to df, and
\* the new table is returned.
Concat ==
    /\ AtStatement("concat")
    /\ LET idx == ReindexSlice(df.index, seqLen)
       IN  IF Len(idx) # Len(feats)
           THEN /\ pc' = "ValueError"
                /\ UNCHANGED result
           ELSE /\ result' = ConcatFeature(df, idx, feats)
                /\ pc' = "returned"
    /\ estep' = estep + 1
    /\ UNCHANGED <<df, builder, seqLen, X, model, feats, events>>

Next ==
    \/ ImportDataController
    \/ Fetch
    \/ AttachTarget
    \/ AddAllTechnicalIndicators
    \/ AddBlockchainData
    \/ CleanData
    \/ CallExtract
    \/ CreateSequences
    \/ BuildLstmModel
    \/ TrainModel
    \/ Predict
    \/ Concat

Spec == Init /\ [][Next]_vars

\* ------------------------------------------------------------ claims
\* The rows (1-based) of the extraction's input that have a window: the
\* 0-based rows L-1 .. N-2.
WindowRows == seqLen..(NRows(df) - 1)

\* C1: after extract_lstm_features on a table of N rows with window length
\* L < N there are N-L windows, and the lstm_feature stored at every row r
\* that has a window is the summary of window r-(L-1), the window whose
\* last row is row r (window 0 covers rows 0..L-1 and lands on row L-1).
C1_Reindexing ==
    pc = "returned" =>
        /\ Len(X) = NRows(df) - seqLen
        /\ \A r \in WindowRows :
              /\ X[r - seqLen + 1] = SubSeq(df.rows, r - seqLen + 1, r)
              /\ result.rows[r]["lstm_feature"]
                    = Summary(SubSeq(df.rows, r - seqLen + 1, r), model.w)

\* C1 witness: a returned table with a window length of at least 2 and two
\* windows whose summaries differ.
C1_Witness ==
    /\ pc = "returned"
    /\ seqLen >= 2
    /\ Len(X) >= 2
    /\ feats[1] # feats[2]

\* C2: the table returned by extract_lstm_features has the rows of the input
\* in the same order with the same index, the input's columns with their
\* values, and exactly one more column, lstm_feature, undefined on the first
\* L-1 rows and on the last row and defined on every other row.
C2_OneMoreColumn ==
    pc = "returned" =>
        /\ result.index = df.index
        /\ result.cols = Append(df.cols, "lstm_feature")
        /\ \A i \in DOMAIN df.rows :
              /\ \A c \in Range(df.cols) : result.rows[i][c] = df.rows[i][c]
              /\ (result.rows[i]["lstm_feature"] = NaN) <=> (i \notin WindowRows)

\* C2 witness: a returned table with undefined features in front (L >= 2),
\* a defined feature, and the undefined last row.
C2_Witness ==
    /\ pc = "returned"
    /\ seqLen >= 2
    /\ result.rows[1]["lstm_feature"] = NaN
    /\ result.rows[seqLen]["lstm_feature"] # NaN
    /\ result.rows[NRows(df)]["lstm_feature"] = NaN

\* The rows of a series for the day of a date key.
RowsOfDay(series, key) == {j \in DOMAIN series.index : series.index[j][1] = key[1]}

\* What the alignment must put into column name at a row keyed by key.
Aligned(series, name, key) ==
    IF RowsOfDay(series, key) = {} THEN NaN
    ELSE IF name = "MempoolSize" THEN Mean(DaySamples(series, key[1], 1))
    ELSE series.rows[CHOOSE j \in RowsOfDay(series, key) : TRUE][name]

\* C3: in the merged table before cleaning there is one row per primary
\* date, and every auxiliary column holds the series' value for that date
\* (for the mempool series, the mean of that day's samples) when the series
\* has an entry for it and is undefined otherwise; so the number of defined
\* values of a column is the number of primary dates the series covers.
C3_Alignment ==
    pc = "merged" =>
        /\ preClean.index = [i \in DOMAIN argBefore.index |-> DateOf(argBefore.index[i])]
        /\ \A n \in Range(AuxNames) :
              /\ \A i \in DOMAIN preClean.rows :
                    preClean.rows[i][n] = Aligned(aux[n], n, preClean.index[i])
              /\ Cardinality({i \in DOMAIN preClean.rows : preClean.rows[i][n] # NaN})
                    = Cardinality({i \in DOMAIN argBefore.index :
                                      RowsOfDay(aux[n], argBefore.index[i]) # {}})

\* C3 witness: a series that covers some dates of the primary series and
\* lacks the date after a covered one, and a mempool day of two samples.
C3_Witness ==
    /\ pc = "merged"
    /\ NRows(preClean) >= 3
    /\ \E i \in 1..(NRows(preClean) - 1) :
          /\ preClean.rows[i]["HashRate"] # NaN
          /\ preClean.rows[i + 1]["HashRate"] = NaN
    /\ \E i \in DOMAIN preClean.rows :
          Cardinality(RowsOfDay(aux["MempoolSize"], preClean.index[i])) = 2

\* C4: the label of every row but the last is 1 when the next close exceeds
\* the row's close and 0 otherwise, and the label of the last row is
\* undefined.
C4_LastLabelUndefined ==
    pc = "labelled" =>
        \A i \in DOMAIN df.rows :
            df.rows[i]["target"] =
                IF i = NRows(df) THEN NaN
                ELSE IF df.rows[i + 1]["Close"] > df.rows[i]["Close"] THEN 1 ELSE 0

\* C5: a window length >= the number of rows ends the call in a
\* configuration error, raised by the first statement: no model is built,
\* trained or used before it; and the error has no other cause.
C5_LengthRejectedFirst ==
    /\ (pc \in {"extracting", "ConfigurationError", "ValueError", "returned"}
            /\ seqLen >= NRows(df))
         => /\ events \in {<<>>, <<"create_sequences">>}
            /\ (events # <<>> => pc = "ConfigurationError")
    /\ pc = "ConfigurationError"
         => /\ seqLen >= NRows(df)
            /\ events = <<"create_sequences">>
            /\ model = NoModel

\* C5 witness: the error on a non-empty table whose row count is the
\* window length.
C5_Witness ==
    /\ pc = "ConfigurationError"
    /\ NRows(df) >= 2
    /\ seqLen = NRows(df)

\* C6 as claimed: after a builder call returned the caller's input table is
\* what it was before the call.
C6_InputUntouched ==
    pc \in {"indicators", "merged"} => arg = argBefore

\* C6 amended: the builder changes its input only by adding the indicator
\* columns (add_all_technical_indicators) or by replacing the index keys by
\* their dates (add_blockchain_data): rows, their order and the values of
\* the original columns stay, and the table returned is another object.
C6_InputKeptResultSeparate ==
    /\ pc = "indicators" =>
          /\ arg.index = argBefore.index
          /\ arg.cols = argBefore.cols \o IndicatorCols
          /\ \A i \in DOMAIN argBefore.rows : \A c \in Range(argBefore.cols) :
                arg.rows[i][c] = argBefore.rows[i][c]
          /\ dfObj # argObj
    /\ pc = "merged" =>
          /\ arg.index = [i \in DOMAIN argBefore.index |-> DateOf(argBefore.index[i])]
          /\ arg.cols = argBefore.cols
          /\ arg.rows = argBefore.rows
          /\ dfObj # argObj

\* C6 witness: both calls have acted on a table with rows: the input of the
\* second has its keys replaced and already carries the indicator columns.
C6_Witness ==
    /\ pc = "merged"
    /\ NRows(arg) >= 2
    /\ arg.index # argBefore.index
    /\ "cci" \in Range(arg.cols)

Orders(s) ==
    {p \in [DOMAIN s -> Range(s)] : \A i, j \in DOMAIN s : p[i] = p[j] => i = j}

\* C7: merging the five series onto the primary index in any order gives
\* the rows of add_blockchain_data's own order: same keys, same value in
\* every column of every row, before and after cleaning.
C7_MergeOrder ==
    pc = "merged" =>
        \A p \in Orders(BlockchainOrder) :
            LET t == MergeAll(IndexDate(argBefore), aux, p)
                c == clean_data(t)
            IN  /\ t.index = preClean.index
                /\ t.rows = preClean.rows
                /\ c.index = df.index
                /\ c.rows = df.rows

\* C7 witness: series of different coverage were merged and rows survive.
C7_Witness ==
    /\ pc = "merged"
    /\ NRows(aux["HashRate"]) # NRows(aux["MinersRevenue"])
    /\ NRows(df) >= 1
    /\ NRows(df) < NRows(preClean)

\* C8: a call of main runs its stages and completes by returning the
\* features: main is bound and no import error stands in the way.
C8_MainCompletes == pc # "ImportError"

\* C9: a cleaning step that leaves no row ends the pipeline in an error, so
\* no stage after a cleaning step holds an empty table.
C9_EmptyTableIsFatal ==
    pc \in {"indicators", "merged", "cleaned"} => NRows(df) > 0

\* The position of a key in an index of unique keys.
PosIn(index, key) == CHOOSE i \in DOMAIN index : index[i] = key

Idempotent(t) ==
    /\ clean_data(clean_data(t)) = clean_data(t)
    /\ \A i \in DOMAIN clean_data(t).rows : ~HasNaN(clean_data(t).rows[i])
    /\ \A i, j \in DOMAIN clean_data(t).index :
          i < j => PosIn(t.index, clean_data(t).index[i])
                      < PosIn(t.index, clean_data(t).index[j])

\* C10: the table add_blockchain_data returns is clean, so the clean_data
\* call of main returns it unchanged; and cleaning the tables of the
\* pipeline is idempotent and keeps the remaining rows in their order.
C10_CleanIdempotent ==
    /\ pc = "merged" =>
          /\ clean_data(df) = df
          /\ Idempotent(preClean)
          /\ Idempotent(arg)
    /\ pc = "indicators" => Idempotent(arg)

\* C10 witness: add_blockchain_data's cleaning dropped rows and kept some.
C10_Witness ==
    /\ pc = "merged"
    /\ NRows(df) >= 2
    /\ NRows(df) < NRows(preClean)
====
